---- MODULE Spec2Model ----
(***************************************************************************)
(* Model of main.py: an Ollama chat model, a PGVector retriever and a      *)
(* PostgreSQL "devices" table wired as two tools behind a ReAct agent.     *)
(*                                                                         *)
(* Texts are sequences of string tokens.  Where the code looks inside a    *)
(* text (lower-casing, substring search, strip, join) the tokens are the   *)
(* characters or the units the operation works on; fixed literals of the   *)
(* code whose inside is never inspected are one token.                     *)
(***************************************************************************)
EXTENDS Integers, Sequences, FiniteSets, TLC

\* ------------------------------------------------------------------ bounds
\* Longest text the SQL backend returns, in tokens.
MaxResultLen == 2
\* Longest passage content, in tokens.
MaxPassageLen == 2
\* Most passages the retrieval backend returns in one answer.
MaxDocs == 3
\* Most chunks a query text of the fallback study is made of.
MaxChunks == 3
\* Most model/tool round-trips of one agent invocation in the program runs.
MaxRoundTrips == 2
\* Most model/tool round-trips of one agent invocation in the always-tool runs.
MaxLoopTrips == 7

\* ------------------------------------------------------------------- texts
RECURSIVE SeqsUpTo(_, _)
SeqsUpTo(S, n) ==
    IF n = 0 THEN {<<>>}
    ELSE LET shorter == SeqsUpTo(S, n - 1)
         IN  shorter \cup {Append(s, x) : s \in shorter, x \in S}

\* Whether text `needle` occurs in text `hay` as a contiguous run (Python's `in`).
Contains(hay, needle) ==
    \E i \in 1..(Len(hay) - Len(needle) + 1) :
        SubSeq(hay, i, i + Len(needle) - 1) = needle

UpperLetters ==
    <<"A", "B", "C", "D", "E", "F", "G", "H", "I", "J", "K", "L", "M",
      "N", "O", "P", "Q", "R", "S", "T", "U", "V", "W", "X", "Y", "Z">>

LowerLetters ==
    <<"a", "b", "c", "d", "e", "f", "g", "h", "i", "j", "k", "l", "m",
      "n", "o", "p", "q", "r", "s", "t", "u", "v", "w", "x", "y", "z">>

\* str.lower() on one character.
LowerChar(c) ==
    IF \E i \in 1..26 : UpperLetters[i] = c
    THEN LowerLetters[CHOOSE i \in 1..26 : UpperLetters[i] = c]
    ELSE c

\* str.lower(): every character lower-cased, nothing else changed.
Lower(t) == [i \in 1..Len(t) |-> LowerChar(t[i])]

IsSpace(c) == c \in {" ", "\n", "\t"}

RECURSIVE LStrip(_)
LStrip(t) ==
    IF t # <<>> /\ IsSpace(Head(t)) THEN LStrip(Tail(t)) ELSE t

RECURSIVE RStrip(_)
RStrip(t) ==
    IF t # <<>> /\ IsSpace(t[Len(t)]) THEN RStrip(SubSeq(t, 1, Len(t) - 1)) ELSE t

\* str.strip(): leading and trailing whitespace removed.
Strip(t) == RStrip(LStrip(t))

\* --------------------------------------------------- outcomes of a call
\* A Python call either returns a value or raises an exception with a message.
Return(t) == [tag |-> "return", text |-> t]

Raise(m) == [tag |-> "raise", text |-> m]

\* Messages of the exceptions a backend raises (str(exc)).
ExcMessages == {<<>>, <<"connection refused">>, <<"syntax error", " ">>}

\* str(exc) of the AttributeError raised on a value without the attribute used.
AttributeErrorMsg == <<"object has no attribute">>

\* ------------------------------------------------------- query_devices_db
NoRowsText == <<"(no rows found)">>

\* The text before {exc} in the handler's error message (after its warning sign).
SqlErrorPrefix == <<"Error executing query: ">>

DbTexts == SeqsUpTo({" ", "row"}, MaxResultLen)

\* What db.run(sql) can do: return a string, return None, return a truthy
\* value that is no string, or raise.
DbOutcomes ==
    {[kind |-> "value", text |-> t] : t \in DbTexts}
      \cup {[kind |-> "none", text |-> <<>>], [kind |-> "object", text |-> <<>>]}
      \cup {[kind |-> "raise", text |-> m] : m \in ExcMessages}

SelectStmt == <<"SELECT", "brand", "FROM", "devices", ";">>

DropStmt == <<"DROP", "TABLE", "devices", ";">>

InsertStmt == <<"INSERT", "INTO", "devices", "VALUES", ";">>

FallbackSql == <<"SELECT", "*", "FROM", "devices", "LIMIT", "10", ";">>

SqlInputs == {SelectStmt, DropStmt, InsertStmt, FallbackSql, <<>>}

\* A statement is a SELECT when its first keyword is SELECT.
IsSelect(sql) == sql # <<>> /\ sql[1] = "SELECT"

\* The statement the handler hands to db.run: its argument, unchanged.
db_run_statement(sql) == sql

\* The body of the try block of query_devices_db.
query_devices_db_try(sql, out) ==
    CASE out.kind = "raise" -> Raise(out.text)
      [] out.kind = "none" -> Return(NoRowsText)
      [] out.kind = "object" -> Raise(AttributeErrorMsg)
      [] OTHER ->
           IF out.text = <<>> \/ Strip(out.text) = <<>>
           THEN Return(NoRowsText)
           ELSE Return(out.text)

\* The handler without its except clause.
query_devices_db_unguarded(sql, out) == query_devices_db_try(sql, out)

\* query_devices_db: the try block, and `except Exception` turning a raise
\* into the error text.
query_devices_db(sql, out) ==
    LET r == query_devices_db_try(sql, out)
    IN  IF r.tag = "raise" THEN Return(SqlErrorPrefix \o r.text) ELSE r

\* ----------------------------------------------------- retrieve_knowledge
NoKnowledgeText == <<"No relevant knowledge found in the knowledge base.">>

\* The text before {exc} in the handler's error message (after its warning sign).
RetrievalErrorPrefix == <<"Error retrieving knowledge: ">>

Separator == <<"\n\n---\n\n">>

PassageTexts == SeqsUpTo({"a", "\n\n---\n\n"}, MaxPassageLen)

\* A document: its page_content, or an object without that attribute.
Docs ==
    {[has_content |-> TRUE, page_content |-> t] : t \in PassageTexts}
      \cup {[has_content |-> FALSE, page_content |-> <<>>]}

KbOutcomes ==
    {[kind |-> "docs", docs |-> d, text |-> <<>>] : d \in SeqsUpTo(Docs, MaxDocs)}
      \cup {[kind |-> "none", docs |-> <<>>, text |-> <<>>]}
      \cup {[kind |-> "raise", docs |-> <<>>, text |-> m] : m \in ExcMessages}

Questions == {<<"what is a cpu tier">>, <<>>}

\* sep.join(parts) with a separator after every part, the last included.
RECURSIVE JoinTrailing(_, _)
JoinTrailing(sep, parts) ==
    IF parts = <<>> THEN <<>>
    ELSE Head(parts) \o sep \o JoinTrailing(sep, Tail(parts))

\* sep.join(parts).
RECURSIVE Join(_, _)
Join(sep, parts) ==
    IF parts = <<>> THEN <<>>
    ELSE IF Len(parts) = 1 THEN parts[1]
    ELSE Head(parts) \o sep \o Join(sep, Tail(parts))

\* The joined block with the separator also after the last passage.
join_page_contents_trailing(docs) ==
    JoinTrailing(Separator, [i \in 1..Len(docs) |-> docs[i].page_content])

\* "\n\n---\n\n".join([doc.page_content for doc in docs])
join_page_contents(docs) ==
    Join(Separator, [i \in 1..Len(docs) |-> docs[i].page_content])

\* The body of the try block of retrieve_knowledge.
retrieve_knowledge_try(question, out) ==
    CASE out.kind = "raise" -> Raise(out.text)
      [] out.kind = "none" -> Return(NoKnowledgeText)
      [] OTHER ->
           IF out.docs = <<>> THEN Return(NoKnowledgeText)
           ELSE IF \E i \in 1..Len(out.docs) : ~out.docs[i].has_content
           THEN Raise(AttributeErrorMsg)
           ELSE Return(join_page_contents(out.docs))

\* retrieve_knowledge: the try block, and `except Exception` turning a raise
\* into the error text.
retrieve_knowledge(question, out) ==
    LET r == retrieve_knowledge_try(question, out)
    IN  IF r.tag = "raise" THEN Return(RetrievalErrorPrefix \o r.text) ELSE r

\* ------------------------------------------------------------ the program
VARIABLES
    pc,              \* position of the module-level code
    env,             \* the environment after load_dotenv()
    USE_LANGGRAPH,   \* whether langgraph was importable
    constructed,     \* the module-level objects built so far, in order
    agent_executor,  \* "unset", "None" or "agent"
    qi,              \* index of the next query of the main block
    attempted,       \* indices of the queries run_query was called for, in order
    outcome,         \* per query: "pending", "answered", "reported", "silent", "error"
    query,           \* text of the query of the current run_query call
    loopState,       \* state of the agent invocation of the current query
    transcript,      \* messages of the agent invocation of the current query
    modelCalls,      \* calls of the chat model in the current query
    roundTrips,      \* completed tool executions in the current query
    executed,        \* tool handlers invoked in the current query: [func, arg]
    output,          \* what run_query logged for the current query
    received,        \* the exception run_query's except clause received, or ""
    call,            \* handler study: the call under study
    ret              \* handler study: its outcome

vars ==
    <<pc, env, USE_LANGGRAPH, constructed, agent_executor, qi, attempted, outcome,
      query, loopState, transcript, modelCalls, roundTrips, executed, output,
      received, call, ret>>

progVars == <<pc, env, USE_LANGGRAPH, constructed, agent_executor>>

queryVars ==
    <<qi, attempted, outcome, query, loopState, transcript, modelCalls, roundTrips,
      executed, output, received>>

studyVars == <<call, ret>>

\* ------------------------------------------------------------ environment
Settings ==
    {"DB_HOST", "DB_PORT", "DB_USER", "DB_PASSWORD", "DB_NAME",
     "OLLAMA_HOST", "OLLAMA_PORT", "OLLAMA_MODEL"}

\* os.getenv of a variable that is not set.
NoneValue == "None"

\* The settings the `if not all([...])` check looks at.
CheckedSettings == {"DB_HOST", "DB_USER", "DB_PASSWORD", "DB_NAME"}

\* A set variable holds a value or the empty string; an unset one is None.  The
\* empty string matters only where the code tests truthiness.
EnvValues(k) ==
    IF k \in CheckedSettings THEN {NoneValue, "", "value"} ELSE {NoneValue, "value"}

Environments == {e \in [Settings -> {NoneValue, "", "value"}] :
                    \A k \in Settings : e[k] \in EnvValues(k)}

Truthy(v) == v \notin {NoneValue, ""}

\* not all([DB_HOST, DB_USER, DB_PASSWORD, DB_NAME])
missing_db_credentials(e) == \E k \in CheckedSettings : ~Truthy(e[k])

\* f"{x}": None is formatted as the text None.
Format(v) == v

CONNECTION_STRING ==
    <<"postgresql+psycopg2://", Format(env["DB_USER"]), ":", Format(env["DB_PASSWORD"]),
      "@", Format(env["DB_HOST"]), ":", Format(env["DB_PORT"]), "/",
      Format(env["DB_NAME"])>>

OLLAMA_URL == <<"http://", Format(env["OLLAMA_HOST"]), ":", Format(env["OLLAMA_PORT"])>>

\* The backend clients, in the order the module builds them.
ClientOrder == <<"embedding_model", "llm", "vectorstore", "retriever", "db">>

\* ------------------------------------------------------------------ tools
ToolNames == {"KnowledgeBaseRetriever", "DevicesSQLQuery"}

\* The registry with the two handlers exchanged.
tool_func_swapped(name) ==
    IF name = "KnowledgeBaseRetriever" THEN "query_devices_db" ELSE "retrieve_knowledge"

\* tools: the handler registered under each tool name.
tool_func(name) ==
    IF name = "KnowledgeBaseRetriever" THEN "retrieve_knowledge" ELSE "query_devices_db"

\* The tool name a handler is registered under.
ToolOf(func) ==
    IF func = "retrieve_knowledge" THEN "KnowledgeBaseRetriever" ELSE "DevicesSQLQuery"

\* Calling a handler by its function.
call_handler(func, arg, out) ==
    IF func = "query_devices_db" THEN query_devices_db(arg, out)
    ELSE retrieve_knowledge(arg, out)

\* Backend outcomes drawn in the program runs.
DbOutcomesRun ==
    {[kind |-> "value", text |-> <<"row">>],
     [kind |-> "raise", text |-> <<"connection refused">>]}

KbOutcomesRun ==
    {[kind |-> "docs", docs |-> <<[has_content |-> TRUE, page_content |-> <<"a">>]>>,
      text |-> <<>>],
     [kind |-> "raise", docs |-> <<>>, text |-> <<"connection refused">>]}

OutcomesFor(func, dbOuts, kbOuts) ==
    IF func = "query_devices_db" THEN dbOuts ELSE kbOuts

\* --------------------------------------------------------------- messages
UserMessage(t) ==
    [kind |-> "user", content |-> t, name |-> "", args |-> <<>>, id |-> 0]

AssistantMessage(t) ==
    [kind |-> "assistant", content |-> t, name |-> "", args |-> <<>>, id |-> 0]

AssistantToolCall(name, args, id) ==
    [kind |-> "assistant", content |-> <<>>, name |-> name, args |-> args, id |-> id]

ToolResult(name, id, t) ==
    [kind |-> "tool", content |-> t, name |-> name, args |-> <<>>, id |-> id]

HasToolCall(m) == m.kind = "assistant" /\ m.id > 0

FinalTexts == {<<"final answer">>}

UnknownToolText == <<"Error: not a valid tool">>

\* Failures of the chat-model backend.
BackendErrors == {"BackendUnavailableError", "BackendTimeoutError"}

\* The tool names and arguments the model may put in a tool request.
ToolRequests(sqlArgs) ==
    {[name |-> "DevicesSQLQuery", args |-> a] : a \in sqlArgs}
      \cup {[name |-> "KnowledgeBaseRetriever", args |-> <<"what is a cpu tier">>],
            [name |-> "NoSuchTool", args |-> <<>>]}

\* ------------------------------------------------------------ the queries
Query1Text ==
    <<"L", "i", "s", "t", " ", "a", "l", "l", " ", "S", "a", "m", "s", "u", "n", "g",
      " ", "d", "e", "s", "k", "t", "o", "p", "s", " ", "r", "e", "l", "e", "a", "s",
      "e", "d", " ", "a", "f", "t", "e", "r", " ", "2", "0", "2", "1", " ", "w", "i",
      "t", "h", " ", "m", "o", "r", "e", " ", "t", "h", "a", "n", " ", "8", " ", "C",
      "P", "U", " ", "c", "o", "r", "e", "s", " ", "a", "n", "d", " ", "a", " ", "p",
      "r", "i", "c", "e", " ", "u", "n", "d", "e", "r", " ", "1", "5", "0", "0", " ",
      "U", "S", "D", ".">>

Query2Text ==
    <<"E", "x", "p", "l", "a", "i", "n", " ", "w", "h", "a", "t", " ", "C", "P", "U",
      " ", "t", "i", "e", "r", " ", "m", "e", "a", "n", "s", " ", "i", "n", " ", "t",
      "h", "i", "s", " ", "d", "a", "t", "a", "s", "e", "t", " ", "a", "n", "d", " ",
      "h", "o", "w", " ", "i", "t", " ", "a", "f", "f", "e", "c", "t", "s", " ", "p",
      "e", "r", "f", "o", "r", "m", "a", "n", "c", "e", ".">>

Query3Text ==
    <<"W", "h", "a", "t", " ", "a", "r", "e", " ", "t", "h", "e", " ", "t", "o", "p",
      " ", "3", " ", "m", "o", "s", "t", " ", "a", "f", "f", "o", "r", "d", "a", "b",
      "l", "e", " ", "l", "a", "p", "t", "o", "p", "s", " ", "w", "i", "t", "h", " ",
      "a", "t", " ", "l", "e", "a", "s", "t", " ", "1", "6", "G", "B", " ", "R", "A",
      "M", " ", "a", "n", "d", " ", "e", "x", "p", "l", "a", "i", "n", " ", "w", "h",
      "a", "t", " ", "m", "a", "k", "e", "s", " ", "a", " ", "g", "o", "o", "d", " ",
      "C", "P", "U", " ", "f", "o", "r", " ", "l", "a", "p", "t", "o", "p", "s", "?">>

MainQueries == <<Query1Text, Query2Text, Query3Text>>

NumQueries == Len(MainQueries)

Chunks ==
    {<<"L", "i">>, <<"S", "T">>, <<"f", "i", "n", "d">>, <<"S", "h", "o", "w">>,
     <<"e", "X", "p", "l", "a", "i", "n">>, <<"w", "h", "a", "t">>, <<"z", " ">>}

RECURSIVE Flatten(_)
Flatten(ss) == IF ss = <<>> THEN <<>> ELSE Head(ss) \o Flatten(Tail(ss))

\* Query texts of the fallback study: up to MaxChunks chunks, concatenated.
TestQueries == {Flatten(cs) : cs \in SeqsUpTo(Chunks, MaxChunks)}

KwList == <<"l", "i", "s", "t">>

KwFind == <<"f", "i", "n", "d">>

KwShow == <<"s", "h", "o", "w">>

KwExplain == <<"e", "x", "p", "l", "a", "i", "n">>

KwWhat == <<"w", "h", "a", "t">>

\* --------------------------------------------------------------- run_query
NoOutput == [tag |-> "none", text |-> <<>>]

\* The input of agent_executor.invoke: {"messages": [("user", query)]}.
initial_messages(q) == <<UserMessage(q)>>

\* The extraction reading the first message instead of the last.
run_query_extract_first(result) ==
    IF result.has_messages
    THEN IF result.messages = <<>> THEN Raise(<<"list index out of range">>)
         ELSE Return(result.messages[1].content)
    ELSE Return(<<"str(result)">>)

\* `if "messages" in result`: the last message's content; otherwise str(result).
\* An empty message list makes result["messages"][-1] raise IndexError.
run_query_extract(result) ==
    IF result.has_messages
    THEN IF result.messages = <<>> THEN Raise(<<"list index out of range">>)
         ELSE Return(result.messages[Len(result.messages)].content)
    ELSE Return(<<"str(result)">>)

\* An except clause that lets the exception go on to the caller of run_query.
run_query_except_reraise(exc) ==
    [next_pc |-> "crashed", received |-> exc, output |-> NoOutput]

\* An except clause that drops the exception without a trace.
run_query_except_swallow(exc) ==
    [next_pc |-> "main", received |-> "", output |-> NoOutput]

\* `except Exception as e`: the error is logged with its traceback and
\* run_query returns normally.
run_query_except(exc) ==
    [next_pc |-> "main", received |-> exc, output |-> [tag |-> "error", text |-> <<exc>>]]

\* The fallback branch with the knowledge keywords tested first.
fallback_choice_kb_first(q) ==
    IF Contains(Lower(q), KwExplain) \/ Contains(Lower(q), KwWhat) THEN "kb"
    ELSE IF Contains(Lower(q), KwList) \/ Contains(Lower(q), KwFind)
            \/ Contains(Lower(q), KwShow) THEN "sql"
    ELSE "none"

\* The fallback branch of run_query: which handler the keywords select.
fallback_choice(q) ==
    IF Contains(Lower(q), KwList) \/ Contains(Lower(q), KwFind)
       \/ Contains(Lower(q), KwShow) THEN "sql"
    ELSE IF Contains(Lower(q), KwExplain) \/ Contains(Lower(q), KwWhat) THEN "kb"
    ELSE "none"

InQuery == loopState \in {"AWAITING_MODEL", "AWAITING_TOOL"}

\* run_query has ended for query qi with the given outcome.
EndQuery(what) ==
    /\ outcome' = [outcome EXCEPT ![qi] = what]
    /\ qi' = qi + 1

\* The invocation raised `exc`: run_query's except clause takes over.
InvokeRaised(exc) ==
    LET h == run_query_except(exc)
    IN  /\ loopState' = "FAILED"
        /\ received' = h.received
        /\ output' = h.output
        /\ pc' = h.next_pc
        /\ EndQuery("error")

\* ------------------------------------------------ module-level code, in order
\* Lines 56-80: read the environment, stop on missing DB credentials, build the
\* two URLs.
LoadEnvAndCheck ==
    /\ pc = "env"
    /\ pc' = IF missing_db_credentials(env) THEN "config_error" ELSE "clients"
    /\ UNCHANGED <<env, USE_LANGGRAPH, constructed, agent_executor>>
    /\ UNCHANGED queryVars
    /\ UNCHANGED studyVars

\* Lines 84-106: the next backend client is constructed from the URLs; the
\* library's constructor succeeds or raises.
ConstructClient ==
    /\ pc = "clients"
    /\ \E ok \in BOOLEAN :
         IF ok
         THEN /\ constructed' = Append(constructed, ClientOrder[Len(constructed) + 1])
              /\ pc' = IF Len(constructed) + 1 = Len(ClientOrder) THEN "tools" ELSE "clients"
         ELSE /\ pc' = "crashed"
              /\ UNCHANGED constructed
    /\ UNCHANGED <<env, USE_LANGGRAPH, agent_executor>>
    /\ UNCHANGED queryVars
    /\ UNCHANGED studyVars

\* Lines 157-184: the tools list.
DefineTools ==
    /\ pc = "tools"
    /\ constructed' = Append(constructed, "tools")
    /\ pc' = "agent"
    /\ UNCHANGED <<env, USE_LANGGRAPH, agent_executor>>
    /\ UNCHANGED queryVars
    /\ UNCHANGED studyVars

\* Lines 187-199: create_react_agent(llm, tools), or None in fallback mode.
CreateAgent ==
    /\ pc = "agent"
    /\ IF USE_LANGGRAPH
       THEN \E ok \in BOOLEAN :
              IF ok
              THEN /\ agent_executor' = "agent"
                   /\ constructed' = Append(constructed, "agent_executor")
                   /\ pc' = "main"
              ELSE /\ pc' = "crashed"
                   /\ UNCHANGED <<agent_executor, constructed>>
       ELSE /\ agent_executor' = "None"
            /\ pc' = "main"
            /\ UNCHANGED constructed
    /\ UNCHANGED <<env, USE_LANGGRAPH>>
    /\ UNCHANGED queryVars
    /\ UNCHANGED studyVars

\* ------------------------------------------------------ run_query, agent path
\* run_query(q, name) with an agent: agent_executor.invoke starts on the
\* initial messages.
RunQueryAgent(q) ==
    /\ pc = "main" /\ qi <= NumQueries /\ ~InQuery
    /\ agent_executor = "agent"
    /\ query' = q
    /\ attempted' = Append(attempted, qi)
    /\ loopState' = "AWAITING_MODEL"
    /\ transcript' = initial_messages(q)
    /\ modelCalls' = 0
    /\ roundTrips' = 0
    /\ executed' = <<>>
    /\ output' = NoOutput
    /\ received' = ""
    /\ UNCHANGED <<qi, outcome>>
    /\ UNCHANGED progVars
    /\ UNCHANGED studyVars

\* The model answers in natural language: the invocation returns its messages
\* and run_query logs the content of the last one.
ModelFinalAnswer ==
    /\ pc = "main" /\ loopState = "AWAITING_MODEL"
    /\ \E t \in FinalTexts :
         LET msgs == Append(transcript, AssistantMessage(t))
             r == run_query_extract([has_messages |-> TRUE, messages |-> msgs])
         IN  /\ transcript' = msgs
             /\ modelCalls' = modelCalls + 1
             /\ IF r.tag = "raise"
                THEN InvokeRaised("IndexError")
                ELSE /\ loopState' = "DONE"
                     /\ output' = [tag |-> "result", text |-> r.text]
                     /\ EndQuery("answered")
                     /\ UNCHANGED <<pc, received>>
    /\ UNCHANGED <<env, USE_LANGGRAPH, constructed, agent_executor>>
    /\ UNCHANGED <<attempted, query, roundTrips, executed>>
    /\ UNCHANGED studyVars

\* The model answers with a tool request.
ModelToolRequest(cap, sqlArgs) ==
    /\ pc = "main" /\ loopState = "AWAITING_MODEL"
    /\ roundTrips < cap
    /\ \E rq \in ToolRequests(sqlArgs) :
         transcript' = Append(transcript, AssistantToolCall(rq.name, rq.args, roundTrips + 1))
    /\ modelCalls' = modelCalls + 1
    /\ loopState' = "AWAITING_TOOL"
    /\ UNCHANGED <<qi, attempted, outcome, query, roundTrips, executed, output, received>>
    /\ UNCHANGED progVars
    /\ UNCHANGED studyVars

\* The call of the model backend fails: the invocation raises.
ModelRaises ==
    /\ pc = "main" /\ loopState = "AWAITING_MODEL"
    /\ \E exc \in BackendErrors : InvokeRaised(exc)
    /\ modelCalls' = modelCalls + 1
    /\ UNCHANGED <<env, USE_LANGGRAPH, constructed, agent_executor>>
    /\ UNCHANGED <<attempted, query, transcript, roundTrips, executed>>
    /\ UNCHANGED studyVars

\* The requested tool is run: the handler registered under the requested name
\* is called with the requested argument and its text becomes the tool result.
ToolExecute(dbOuts, kbOuts) ==
    /\ pc = "main" /\ loopState = "AWAITING_TOOL"
    /\ LET rq == transcript[Len(transcript)]
           func == tool_func(rq.name)
       IN  /\ rq.name \in ToolNames
           /\ executed' = Append(executed, [func |-> func, arg |-> rq.args])
           /\ \E out \in OutcomesFor(func, dbOuts, kbOuts) :
                LET r == call_handler(func, rq.args, out)
                IN  IF r.tag = "raise"
                    THEN /\ InvokeRaised("ToolHandlerError")
                         /\ UNCHANGED <<transcript, roundTrips>>
                    ELSE /\ transcript' = Append(transcript, ToolResult(rq.name, rq.id, r.text))
                         /\ roundTrips' = roundTrips + 1
                         /\ loopState' = "AWAITING_MODEL"
                         /\ UNCHANGED <<pc, qi, outcome, output, received>>
    /\ UNCHANGED <<env, USE_LANGGRAPH, constructed, agent_executor>>
    /\ UNCHANGED <<attempted, query, modelCalls>>
    /\ UNCHANGED studyVars

\* The requested name is no registered tool: no handler runs; the request is
\* answered with an error result, or the invocation raises.
ToolUnknown ==
    /\ pc = "main" /\ loopState = "AWAITING_TOOL"
    /\ LET rq == transcript[Len(transcript)]
       IN  /\ rq.name \notin ToolNames
           /\ \E raises \in BOOLEAN :
                IF raises
                THEN /\ InvokeRaised("UnknownToolError")
                     /\ UNCHANGED <<transcript, roundTrips>>
                ELSE /\ transcript' = Append(transcript, ToolResult(rq.name, rq.id, UnknownToolText))
                     /\ roundTrips' = roundTrips + 1
                     /\ loopState' = "AWAITING_MODEL"
                     /\ UNCHANGED <<pc, qi, outcome, output, received>>
    /\ UNCHANGED <<env, USE_LANGGRAPH, constructed, agent_executor>>
    /\ UNCHANGED <<attempted, query, modelCalls, executed>>
    /\ UNCHANGED studyVars

\* An invocation that has made `cap` round-trips is ended by the agent
\* library: nothing in this program ends it.
InvokeGivesUp(cap) ==
    /\ pc = "main" /\ loopState = "AWAITING_MODEL"
    /\ roundTrips = cap
    /\ InvokeRaised("RecursionLimit")
    /\ UNCHANGED <<env, USE_LANGGRAPH, constructed, agent_executor>>
    /\ UNCHANGED <<attempted, query, transcript, modelCalls, roundTrips, executed>>
    /\ UNCHANGED studyVars

\* --------------------------------------------------- run_query, fallback path
\* run_query(q, name) without an agent: one handler chosen by keyword, called
\* directly, its text logged; or nothing at all.
RunQueryFallback(q, dbOuts, kbOuts) ==
    /\ pc = "main" /\ qi <= NumQueries /\ ~InQuery
    /\ agent_executor = "None"
    /\ query' = q
    /\ attempted' = Append(attempted, qi)
    /\ loopState' = "IDLE"
    /\ transcript' = <<>>
    /\ modelCalls' = 0
    /\ roundTrips' = 0
    /\ received' = ""
    /\ LET choice == fallback_choice(q)
           func == IF choice = "sql" THEN "query_devices_db" ELSE "retrieve_knowledge"
           arg == IF choice = "sql" THEN FallbackSql ELSE q
       IN  IF choice = "none"
           THEN /\ executed' = <<>>
                /\ output' = NoOutput
                /\ EndQuery("silent")
                /\ UNCHANGED pc
           ELSE /\ executed' = <<[func |-> func, arg |-> arg]>>
                /\ \E out \in OutcomesFor(func, dbOuts, kbOuts) :
                     LET r == call_handler(func, arg, out)
                     IN  IF r.tag = "raise"
                         THEN /\ pc' = "crashed"
                              /\ output' = NoOutput
                              /\ EndQuery("error")
                         ELSE /\ output' = [tag |-> "result", text |-> r.text]
                              /\ EndQuery("reported")
                              /\ UNCHANGED pc
    /\ UNCHANGED <<env, USE_LANGGRAPH, constructed, agent_executor>>
    /\ UNCHANGED studyVars

\* Lines 275-277: "All queries completed".
AllCompleted ==
    /\ pc = "main" /\ qi = NumQueries + 1 /\ ~InQuery
    /\ pc' = "done"
    /\ UNCHANGED <<env, USE_LANGGRAPH, constructed, agent_executor>>
    /\ UNCHANGED queryVars
    /\ UNCHANGED studyVars

\* ------------------------------------------------------ the program's runs
NoCall == [func |-> "", arg |-> <<>>, out |-> [kind |-> "", text |-> <<>>]]

NoRet == [tag |-> "", text |-> <<>>]

QueryInit ==
    /\ qi = 1
    /\ attempted = <<>>
    /\ outcome = [i \in 1..NumQueries |-> "pending"]
    /\ query = <<>>
    /\ loopState = "IDLE"
    /\ transcript = <<>>
    /\ modelCalls = 0
    /\ roundTrips = 0
    /\ executed = <<>>
    /\ output = NoOutput
    /\ received = ""

\* The state after the imports: any environment, langgraph importable or not.
Init ==
    /\ pc = "env"
    /\ env \in Environments
    /\ USE_LANGGRAPH \in BOOLEAN
    /\ constructed = <<>>
    /\ agent_executor = "unset"
    /\ QueryInit
    /\ call = NoCall
    /\ ret = NoRet

MainAgentQuery == RunQueryAgent(MainQueries[qi])

MainToolRequest == ModelToolRequest(MaxRoundTrips, {SelectStmt, DropStmt})

MainToolExecute == ToolExecute(DbOutcomesRun, KbOutcomesRun)

MainFallbackQuery == RunQueryFallback(MainQueries[qi], DbOutcomesRun, KbOutcomesRun)

Next ==
    \/ LoadEnvAndCheck
    \/ ConstructClient
    \/ DefineTools
    \/ CreateAgent
    \/ MainAgentQuery
    \/ ModelFinalAnswer
    \/ MainToolRequest
    \/ ModelRaises
    \/ MainToolExecute
    \/ ToolUnknown
    \/ MainFallbackQuery
    \/ AllCompleted

Spec == Init /\ [][Next]_vars

\* ------------------------------------------------- the state after startup
AllSet == [k \in Settings |-> "value"]

\* Startup has succeeded: every client, the tools and (with langgraph) the
\* agent are built, and the main block is about to run its first query.
AfterStartup(langgraph) ==
    /\ pc = "main"
    /\ env = AllSet
    /\ USE_LANGGRAPH = langgraph
    /\ constructed = IF langgraph
                     THEN ClientOrder \o <<"tools", "agent_executor">>
                     ELSE ClientOrder \o <<"tools">>
    /\ agent_executor = IF langgraph THEN "agent" ELSE "None"
    /\ QueryInit

\* --------------------------------------------- the main block after startup
InitMain ==
    /\ \E g \in BOOLEAN : AfterStartup(g)
    /\ call = NoCall
    /\ ret = NoRet

NextMain ==
    \/ MainAgentQuery
    \/ ModelFinalAnswer
    \/ MainToolRequest
    \/ ModelRaises
    \/ MainToolExecute
    \/ ToolUnknown
    \/ MainFallbackQuery
    \/ AllCompleted

SpecMain == InitMain /\ [][NextMain]_vars

\* ------------------------------------------- the handlers, called directly
HandlerCalls ==
    {[func |-> "query_devices_db", arg |-> a, out |-> o] : a \in SqlInputs, o \in DbOutcomes}
      \cup {[func |-> "retrieve_knowledge", arg |-> q, out |-> o] :
              q \in Questions, o \in KbOutcomes}

InitHandlers ==
    /\ \E g \in BOOLEAN : AfterStartup(g)
    /\ call \in HandlerCalls
    /\ ret = NoRet

\* query_devices_db(sql) is called and returns or raises.
CallQueryDevicesDb ==
    /\ ret = NoRet /\ call.func = "query_devices_db"
    /\ ret' = query_devices_db(call.arg, call.out)
    /\ executed' = <<[func |-> call.func, arg |-> call.arg]>>
    /\ UNCHANGED <<qi, attempted, outcome, query, loopState, transcript, modelCalls,
                   roundTrips, output, received, call>>
    /\ UNCHANGED progVars

\* retrieve_knowledge(question) is called and returns or raises.
CallRetrieveKnowledge ==
    /\ ret = NoRet /\ call.func = "retrieve_knowledge"
    /\ ret' = retrieve_knowledge(call.arg, call.out)
    /\ executed' = <<[func |-> call.func, arg |-> call.arg]>>
    /\ UNCHANGED <<qi, attempted, outcome, query, loopState, transcript, modelCalls,
                   roundTrips, output, received, call>>
    /\ UNCHANGED progVars

NextHandlers == CallQueryDevicesDb \/ CallRetrieveKnowledge

SpecHandlers == InitHandlers /\ [][NextHandlers]_vars

\* ------------------------------------- run_query in fallback mode, any query
\* The query text under study is drawn once; run_query is called with it.
InitFallback ==
    /\ AfterStartup(FALSE)
    /\ call \in {[func |-> "run_query", arg |-> q, out |-> NoCall.out] : q \in TestQueries}
    /\ ret = NoRet

TestFallbackQuery == RunQueryFallback(call.arg, DbOutcomesRun, KbOutcomesRun)

NextFallback == TestFallbackQuery \/ AllCompleted

SpecFallback == InitFallback /\ [][NextFallback]_vars

\* --------------------- the agent path with a model that always requests a tool
InitAlwaysTool ==
    /\ AfterStartup(TRUE)
    /\ call = NoCall
    /\ ret = NoRet

LoopToolRequest == ModelToolRequest(MaxLoopTrips, {SelectStmt})

LoopToolExecute ==
    ToolExecute({[kind |-> "value", text |-> <<"row">>]},
                {[kind |-> "docs", docs |-> <<>>, text |-> <<>>]})

LoopGivesUp == InvokeGivesUp(MaxLoopTrips)

NextAlwaysTool ==
    \/ MainAgentQuery
    \/ LoopToolRequest
    \/ LoopToolExecute
    \/ ToolUnknown
    \/ LoopGivesUp
    \/ AllCompleted

SpecAlwaysTool == InitAlwaysTool /\ [][NextAlwaysTool]_vars

\* ================================================================== claims
\* The turn ceiling the design document suggests (6 round-trips).
MAX_TURNS == 6

RequiredSettings == Settings

\* Sum of the lengths of the first n passages and of the separators after them.
RECURSIVE OffsetAfter(_, _)
OffsetAfter(docs, n) ==
    IF n = 0 THEN 0
    ELSE OffsetAfter(docs, n - 1) + Len(docs[n].page_content) + Len(Separator)

ToolCallCount == Cardinality({j \in 1..Len(transcript) : HasToolCall(transcript[j])})

\* Every handler run and every tool result has a model-issued request for it.
RequestPrecedes ==
    /\ \A i \in 1..Len(executed) :
         \E j \in 1..Len(transcript) :
            /\ HasToolCall(transcript[j])
            /\ transcript[j].name = ToolOf(executed[i].func)
            /\ transcript[j].args = executed[i].arg
    /\ \A j \in 1..Len(transcript) :
         transcript[j].kind = "tool" =>
            \E k \in 1..(j - 1) :
               /\ HasToolCall(transcript[k])
               /\ transcript[k].name = transcript[j].name
               /\ transcript[k].id = transcript[j].id

\* C1: called directly with any input and any backend outcome, each handler
\* returns (it never raises), and when the backend raised, the returned text
\* contains the exception's message.
C1_HandlerFailureIsData ==
    ret # NoRet =>
       /\ ret.tag = "return"
       /\ call.out.kind = "raise" => Contains(ret.text, call.out.text)

C1_Witness ==
    /\ ret # NoRet
    /\ call.func = "query_devices_db"
    /\ call.out.kind = "raise"
    /\ call.out.text = <<"syntax error", " ">>

\* C2: while any required setting is missing, the process is still reading
\* its configuration or has stopped with the configuration error: no client,
\* tool or agent is built.
C2_IncompleteConfigIsFatal ==
    (\E k \in RequiredSettings : env[k] = NoneValue) =>
       /\ pc \in {"env", "config_error"}
       /\ constructed = <<>>
       /\ agent_executor # "agent"

\* C3: with a model that always requests a tool, a query makes at most
\* MAX_TURNS round-trips, and an ended query ended in MAX_TURNS_EXCEEDED with
\* an answer reported.
C3_TurnCeiling ==
    /\ roundTrips <= MAX_TURNS
    /\ (attempted # <<>> /\ ~InQuery) =>
          /\ loopState = "MAX_TURNS_EXCEEDED"
          /\ output.tag = "result"

\* C4: when the first model call of a query fails, the invocation is FAILED,
\* the model was called once (no retry), run_query received the backend error
\* and logged it, and the transcript is the initial user message alone.
C4_BackendUnavailableFirstCall ==
    (agent_executor = "agent" /\ modelCalls >= 1
       /\ \A j \in 1..Len(transcript) : transcript[j].kind # "assistant") =>
       /\ loopState = "FAILED"
       /\ modelCalls = 1
       /\ received \in BackendErrors
       /\ output = [tag |-> "error", text |-> <<received>>]
       /\ transcript = <<UserMessage(query)>>

C4_Witness ==
    /\ agent_executor = "agent"
    /\ loopState = "FAILED"
    /\ modelCalls = 1
    /\ received = "BackendUnavailableError"
    /\ Len(transcript) = 1

\* C5 as stated: in both paths every handler run and every tool result is
\* preceded by an assistant message carrying the matching tool call.
C5_RequestPrecedesInBothPaths == RequestPrecedes

\* C5 as amended: with an agent, every handler run and every tool result is
\* preceded by an assistant message carrying the matching tool call; without
\* an agent there is no transcript at all, and a handler runs with no request.
C5_RequestPrecedesWithAgent ==
    /\ agent_executor = "agent" => RequestPrecedes
    /\ agent_executor = "None" => transcript = <<>>

C5_Witness ==
    /\ agent_executor = "agent"
    /\ Len(executed) = 2
    /\ executed[1].func # executed[2].func
    /\ transcript[Len(transcript)].kind = "tool"

\* C6: every statement the SQL handler hands to the database is a SELECT.
C6_OnlySelectReachesDb ==
    \A i \in 1..Len(executed) :
       executed[i].func = "query_devices_db" => IsSelect(db_run_statement(executed[i].arg))

\* C7: for passages p1..pn the block is p1, separator, p2, ..., pn: each
\* passage at its place in the backend's order, a separator between
\* neighbours only; for an empty list the fixed message.
C7_PassagesJoined ==
    (ret # NoRet /\ call.func = "retrieve_knowledge" /\ call.out.kind = "docs"
       /\ \A i \in 1..Len(call.out.docs) : call.out.docs[i].has_content) =>
       LET docs == call.out.docs
           n == Len(docs)
       IN  IF n = 0 THEN ret = Return(NoKnowledgeText)
           ELSE /\ ret.tag = "return"
                /\ Len(ret.text) = OffsetAfter(docs, n) - Len(Separator)
                /\ \A i \in 1..n :
                     SubSeq(ret.text, OffsetAfter(docs, i - 1) + 1,
                            OffsetAfter(docs, i) - Len(Separator)) = docs[i].page_content
                /\ \A i \in 1..(n - 1) :
                     SubSeq(ret.text, OffsetAfter(docs, i) - Len(Separator) + 1,
                            OffsetAfter(docs, i)) = Separator

C7_Witness ==
    /\ ret # NoRet
    /\ call.func = "retrieve_knowledge"
    /\ call.out.kind = "docs"
    /\ Len(call.out.docs) = 3
    /\ \A i \in 1..3 : call.out.docs[i].has_content
    /\ call.out.docs[1].page_content = <<"a", "\n\n---\n\n">>
    /\ call.out.docs[2].page_content = <<>>
    /\ call.out.docs[3].page_content = <<"a">>

\* C8: an invocation that made exactly one tool call and then got the model's
\* final answer is DONE, its transcript is user message, assistant message
\* with the call, tool result, final assistant message, and the reported
\* answer is the content of that final message.
C8_OneToolCallTranscript ==
    (agent_executor = "agent" /\ transcript # <<>> /\ ToolCallCount = 1
       /\ transcript[Len(transcript)].kind = "assistant"
       /\ ~HasToolCall(transcript[Len(transcript)])) =>
       /\ loopState = "DONE"
       /\ Len(transcript) = 4
       /\ transcript[1] = UserMessage(query)
       /\ HasToolCall(transcript[2])
       /\ transcript[3].kind = "tool"
       /\ transcript[3].name = transcript[2].name /\ transcript[3].id = transcript[2].id
       /\ output = [tag |-> "result", text |-> transcript[4].content]

C8_Witness ==
    /\ agent_executor = "agent"
    /\ loopState = "DONE"
    /\ ToolCallCount = 1
    /\ Len(transcript) = 4
    /\ transcript[2].name = "DevicesSQLQuery"

\* C9: in fallback mode a query with 'list', 'find' or 'show' in its
\* lower-cased text runs the SQL handler once with the fixed statement and
\* nothing else; otherwise one with 'explain' or 'what' runs the knowledge
\* handler once with the query text; otherwise no handler runs and nothing
\* is reported.
C9_FallbackRouting ==
    (agent_executor = "None" /\ attempted # <<>>) =>
       LET lq == Lower(query)
           data == \E kw \in {KwList, KwFind, KwShow} : Contains(lq, kw)
           expl == \E kw \in {KwExplain, KwWhat} : Contains(lq, kw)
       IN  /\ Len(executed) <= 1
           /\ data => executed = <<[func |-> "query_devices_db", arg |-> FallbackSql]>>
           /\ (~data /\ expl) => executed = <<[func |-> "retrieve_knowledge", arg |-> query]>>
           /\ (~data /\ ~expl) => (executed = <<>> /\ output = NoOutput)
           /\ executed # <<>> => output.tag = "result"

C9_Witness ==
    /\ agent_executor = "None"
    /\ query = <<"L", "i", "S", "T", "w", "h", "a", "t">>
    /\ Len(executed) = 1
    /\ executed[1].func = "query_devices_db"

\* C10: once startup has succeeded the main sequence never stops short of
\* 'All queries completed': whatever way a query ended, with an answer or an
\* error, run_query has returned to the main block, where the only step is
\* to attempt the next query in the order 1, 2, 3, or, after the third, the
\* 'All queries completed' step, and that step can always be taken.
C10_AllQueriesAttempted ==
    LET ended == Cardinality({i \in 1..NumQueries : outcome[i] # "pending"})
    IN  /\ attempted = [i \in 1..Len(attempted) |-> i]
        /\ agent_executor # "unset" =>
             /\ pc \in {"main", "done"}
             /\ qi = ended + 1
             /\ Len(attempted) = IF InQuery THEN ended + 1 ELSE ended
        /\ (pc = "main" /\ ~InQuery /\ qi <= NumQueries) =>
             ENABLED (MainAgentQuery \/ MainFallbackQuery)
        /\ (pc = "main" /\ InQuery) => ENABLED NextMain
        /\ (pc = "main" /\ qi = NumQueries + 1) => ENABLED AllCompleted
        /\ pc = "done" => attempted = <<1, 2, 3>>

C10_Witness ==
    /\ pc = "done"
    /\ outcome[1] = "error"
    /\ outcome[2] = "answered"
    /\ outcome[3] = "error"

====
